---- MODULE Spec2Model ----
(***************************************************************************)
(* The chat view (src/unnamed/part_000): the transcript of one             *)
(* conversation, the prompt input, the view-level loading flag, the        *)
(* AbortController of the view, and the network calls issued by            *)
(* onConversation / onRegenerate and their onDownloadProgress callbacks.   *)
(*                                                                         *)
(* A JavaScript handler runs to completion, and the promise reactions that *)
(* a settled call schedules (the code after an await, catch, finally) run  *)
(* as microtasks before the next event is taken, so one action is one      *)
(* handler together with those reactions.                                  *)
(*                                                                         *)
(* Texts are sequences of tokens (one token per character or per fixed     *)
(* piece of text), string concatenation is \o.  Transcript indices are     *)
(* 1-based here and 0-based in the code.  The dateTime field of a message  *)
(* is a wall-clock stamp that no decision reads; it is left out.           *)
(***************************************************************************)
EXTENDS Integers, Sequences, FiniteSets, TLC

VARIABLES
    dataSources,    \* the transcript of the conversation (chatStore.getChatByUuid)
    prompt,         \* the prompt input (ref prompt)
    loading,        \* the view-level loading flag (ref loading)
    usingContext,   \* the context switch (useUsingContext)
    openLongReply,  \* VITE_GLOB_OPEN_LONG_REPLY === 'true'
    controller,     \* the identity of the AbortController held in `controller`
    aborted,        \* controller.signal.aborted
    sends,          \* the number of sends accepted so far (history)
    confirms,       \* the number of dialogs confirmed so far (history)
    invs,           \* the closures of the onConversation/onRegenerate invocations
    calls,          \* the network calls issued so far, in flight or settled
    dialog,         \* the confirmation dialog that is open, if any
    mounted,        \* FALSE once onUnmounted has run
    ignored         \* "onConversation" when the last step was a submit that
                    \* returned at one of its guards, "" otherwise (history)

vars == <<dataSources, prompt, loading, usingContext, openLongReply, controller,
          aborted, sends, confirms, invs, calls, dialog, mounted, ignored>>

----------------------------------------------------------------------------
(* Bounds of the model *)

\* the number of network calls issued in one behaviour
MaxCalls == 3
\* the number of sends accepted in one behaviour
MaxSends == 2
\* the number of tokens of a response buffer
MaxBuf == 3
\* the number of dialogs confirmed in one behaviour
MaxConfirms == 1

----------------------------------------------------------------------------
(* Values *)

\* null where an object is expected (conversationOptions, options, the value
\* of a chunk that does not parse)
Null == <<>>
\* null where a string is expected; the empty string is <<>>
NullText == <<"null">>
\* a field that is missing (undefined); concatenated to a string it reads "undefined"
Undefined == <<"undefined">>
\* an identifier that is missing from an options object
NoId == 0
\* the text of the placeholder reply
Thinking == <<"thinking">>
\* t('common.wrong')
CommonWrong == <<"common.wrong">>
\* the message of the error a cancelled call is rejected with
Canceled == <<"canceled">>

\* the prompts the user can type
PromptSet == { <<>>, <<" ">>, <<" ", "h">> }

\* the messages of the errors a call can fail with (NullText: { message: null })
ErrorSet == { <<"E">>, NullText }

\* One token of a response buffer: a newline, a fragment of a line that is
\* still being received, or the text of one JSON object.
NL == [kind |-> "nl", text |-> <<>>, id |-> NoId, conversationId |-> NoId, finish |-> ""]
Frag == [kind |-> "frag", text |-> <<>>, id |-> NoId, conversationId |-> NoId, finish |-> ""]

\* The JSON objects the endpoint can send: finish is detail.choices[0].finish_reason.
ChunkSet ==
    { [kind |-> "obj", text |-> <<"a">>, id |-> 1, conversationId |-> 9, finish |-> "length"],
      [kind |-> "obj", text |-> <<"b">>, id |-> 2, conversationId |-> 9, finish |-> "stop"] }

\* `{}`
EmptyOptions == [conversationId |-> NoId, parentMessageId |-> NoId]

----------------------------------------------------------------------------
(* Pure helpers *)

\* x ?? d
Coalesce(x, d) == IF x = Undefined \/ x = NullText THEN d ELSE x

\* String.prototype.trim on a token sequence
RECURSIVE TrimLeft(_)
TrimLeft(s) ==
    IF s # <<>> /\ Head(s) = " " THEN TrimLeft(Tail(s)) ELSE s

RECURSIVE TrimRight(_)
TrimRight(s) ==
    IF s # <<>> /\ s[Len(s)] = " " THEN TrimRight(SubSeq(s, 1, Len(s) - 1)) ELSE s

Trim(s) == TrimRight(TrimLeft(s))

\* mutant of IsBlank: the prompt is not trimmed
IsBlankNoTrim(message) == message = <<>>

\* !message || message.trim() === ''
IsBlank(message) == message = <<>> \/ Trim(message) = <<>>

\* responseText.lastIndexOf('\n', from), 0-based, -1 when there is none;
\* a negative from is taken as 0
LastIndexOfNL(responseText, from) ==
    LET start == IF from < 0 THEN 0 ELSE from
        hits == { i \in 0..(Len(responseText) - 1) :
                    i <= start /\ responseText[i + 1] = NL }
    IN IF hits = {} THEN -1 ELSE CHOOSE i \in hits : \A j \in hits : j <= i

\* mutant of LastChunk: the whole buffer is handed to JSON.parse
LastChunkWhole(responseText) == responseText

\* the chunk handed to JSON.parse
LastChunk(responseText) ==
    LET lastIndex == LastIndexOfNL(responseText, Len(responseText) - 2)
    IN IF lastIndex # -1
         THEN SubSeq(responseText, lastIndex + 1, Len(responseText))
         ELSE responseText

\* JSON.parse skips the white space around the value
RECURSIVE StripNL(_)
StripNL(s) ==
    IF s # <<>> /\ Head(s) = NL THEN StripNL(Tail(s))
    ELSE IF s # <<>> /\ s[Len(s)] = NL THEN StripNL(SubSeq(s, 1, Len(s) - 1))
    ELSE s

\* JSON.parse(chunk): the object, or Null when it throws
ParseJSON(chunk) ==
    LET v == StripNL(chunk)
    IN IF Len(v) = 1 /\ v[1].kind = "obj" THEN v[1] ELSE Null

----------------------------------------------------------------------------
(* The chat store *)

\* addChat(uuid, chat)
AddChat(ds, chat) == Append(ds, chat)

\* updateChat(uuid, index, chat): the entry at index is replaced
UpdateChat(ds, index, chat) ==
    IF index \in 1..Len(ds) THEN [ds EXCEPT ![index] = chat] ELSE ds

\* updateChatSome(uuid, index, { loading: false })
UpdateChatSomeLoading(ds, index) ==
    IF index \in 1..Len(ds) THEN [ds EXCEPT ![index].loading = FALSE] ELSE ds

\* updateChatSome(uuid, index, { text, error: false, loading: false })
UpdateChatSomeText(ds, index, text) ==
    IF index \in 1..Len(ds)
      THEN [ds EXCEPT ![index].text = text, ![index].error = FALSE,
                      ![index].loading = FALSE]
      ELSE ds

\* chatStore.deleteChatByUuid(uuid, index)
DeleteChat(ds, index) ==
    IF index \in 1..Len(ds)
      THEN SubSeq(ds, 1, index - 1) \o SubSeq(ds, index + 1, Len(ds))
      ELSE ds

\* conversationList: the replies that carry conversationOptions
ConversationList(ds) ==
    SelectSeq(ds, LAMBDA item : ~item.inversion /\ item.conversationOptions # Null)

\* mutant of LastContext: the first entry of conversationList is read
FirstContext(ds) ==
    LET list == ConversationList(ds)
    IN IF list = <<>> THEN Null ELSE list[1].conversationOptions

\* conversationList.value[conversationList.value.length - 1]?.conversationOptions
LastContext(ds) ==
    LET list == ConversationList(ds)
    IN IF list = <<>> THEN Null ELSE list[Len(list)].conversationOptions

----------------------------------------------------------------------------
(* Messages, closures and calls *)

\* mutant of UserMessage: the text of the entry is the trimmed prompt
UserMessageTrimmed(message) ==
    [text |-> Trim(message), inversion |-> TRUE, error |-> FALSE, loading |-> FALSE,
     conversationOptions |-> Null,
     requestOptions |-> [prompt |-> message, options |-> Null]]

\* the user message onConversation adds
UserMessage(message) ==
    [text |-> message, inversion |-> TRUE, error |-> FALSE, loading |-> FALSE,
     conversationOptions |-> Null,
     requestOptions |-> [prompt |-> message, options |-> Null]]

\* the placeholder reply onConversation adds
PlaceholderMessage(message, options) ==
    [text |-> Thinking, inversion |-> FALSE, error |-> FALSE, loading |-> TRUE,
     conversationOptions |-> Null,
     requestOptions |-> [prompt |-> message, options |-> options]]

\* the entry onRegenerate writes before the call
RegenerateMessage(message, options) ==
    [text |-> <<>>, inversion |-> FALSE, error |-> FALSE, loading |-> TRUE,
     conversationOptions |-> Null,
     requestOptions |-> [prompt |-> message, options |-> options]]

\* the entry a parsed chunk is merged into
StreamMessage(lastText, data, message, options) ==
    [text |-> lastText \o Coalesce(data.text, <<>>),
     inversion |-> FALSE, error |-> FALSE, loading |-> TRUE,
     conversationOptions |->
         [conversationId |-> data.conversationId, parentMessageId |-> data.id],
     requestOptions |-> [prompt |-> message, options |-> options]]

\* the entry written for a failed call
ErrorMessage(errorMessage, message, options) ==
    [text |-> errorMessage, inversion |-> FALSE, error |-> TRUE, loading |-> FALSE,
     conversationOptions |-> Null,
     requestOptions |-> [prompt |-> message, options |-> options]]

\* `${currentChat.text}\n[${errorMessage}]`
ErrorLine(text, errorMessage) == text \o <<"\n", "[">> \o errorMessage \o <<"]">>

\* the options a new send starts with
SendOptions(ds, ctx) ==
    IF LastContext(ds) # Null /\ ctx THEN LastContext(ds) ELSE EmptyOptions

\* the options onRegenerate starts with
RegenerateOptions(requestOptions) ==
    IF requestOptions.options # Null THEN requestOptions.options ELSE EmptyOptions

\* The closure of one invocation: message, options and lastText are the
\* variables its callbacks share.  acc is history: the texts of the chunks on
\* which the reply was continued so far, concatenated in order.  own is
\* history: the position in the transcript of the reply the invocation was
\* started for, followed through deletions, 0 once that reply is deleted.
Closure(kind, index, message, options) ==
    [kind |-> kind, index |-> index, message |-> message, options |-> options,
     lastText |-> <<>>, acc |-> <<>>, own |-> index]

\* the index a callback of the invocation writes to: dataSources.value.length - 1
\* for a send, the index regenerate was called with otherwise
Target(inv, ds) == IF inv.kind = "send" THEN Len(ds) ELSE inv.index

\* fetchChatAPIProcess({ prompt: message, options, signal: controller.signal, ... });
\* a call given a signal that is already aborted is rejected at once
NewCall(invId, inv, isRoot, parent, ctrl, isAborted) ==
    [inv |-> invId, root |-> isRoot, parent |-> parent, signal |-> ctrl,
     prompt |-> IF isAborted THEN <<>> ELSE inv.message,
     options |-> IF isAborted THEN EmptyOptions ELSE inv.options,
     status |-> IF isAborted THEN "canceled" ELSE "inflight",
     responseText |-> <<>>]

\* A settled call keeps its place in `calls` with the outcome; the request
\* and the response buffer are gone with it.
Settle(call, status) ==
    [call EXCEPT !.status = status, !.prompt = <<>>, !.options = EmptyOptions,
                 !.responseText = <<>>]

InFlight == { c \in 1..Len(calls) : calls[c].status = "inflight" }

\* no dialog is open
NoDialog == [kind |-> "none", index |-> 0]

\* The user can act on the view: it is mounted and no dialog covers it (a
\* dialog of dialog.warning is modal).
UIReady == mounted /\ dialog = NoDialog

\* The closure of an invocation none of whose calls is in flight can be
\* reached by no callback any more.
Released == Closure("released", 0, <<>>, EmptyOptions)

Live(closures, cs) ==
    [i \in 1..Len(closures) |->
        IF \E c \in 1..Len(cs) : cs[c].inv = i /\ cs[c].status = "inflight"
          THEN closures[i] ELSE Released]

\* mutant of IsTruncated: the long-reply switch is not read
IsTruncatedAlways(data) == data.finish = "length"

\* the truncation test of onDownloadProgress
IsTruncated(data) == openLongReply /\ data.finish = "length"

----------------------------------------------------------------------------
(* Initial state: the view set up on an empty conversation *)

Init ==
    /\ dataSources = <<>>
    /\ prompt = <<>>
    /\ loading = FALSE
    /\ usingContext \in BOOLEAN
    /\ openLongReply \in BOOLEAN
    /\ controller = 0
    /\ aborted = FALSE
    /\ sends = 0
    /\ confirms = 0
    /\ invs = <<>>
    /\ calls = <<>>
    /\ dialog = NoDialog
    /\ mounted = TRUE
    /\ ignored = ""


----------------------------------------------------------------------------
(* User input *)

\* v-model:value="prompt"
SetPrompt(p) ==
    /\ UIReady
    /\ prompt # p
    /\ prompt' = p
    /\ ignored' = ""
    /\ UNCHANGED <<dataSources, loading, usingContext, openLongReply, controller,
                   aborted, sends, confirms, invs, calls, dialog, mounted>>

\* toggleUsingContext
ToggleUsingContext ==
    /\ UIReady
    /\ usingContext' = ~usingContext
    /\ ignored' = ""
    /\ UNCHANGED <<dataSources, prompt, loading, openLongReply, controller,
                   aborted, sends, confirms, invs, calls, dialog, mounted>>

\* handleSubmit -> onConversation
onConversation ==
    /\ UIReady
    /\ ignored' = IF loading \/ IsBlank(prompt) THEN "onConversation" ELSE ""
    /\ IF loading \/ IsBlank(prompt)
         THEN UNCHANGED <<dataSources, prompt, loading, controller, aborted,
                          sends, invs, calls>>
         ELSE LET message == prompt
                  ds1 == AddChat(dataSources, UserMessage(message))
                  options == SendOptions(ds1, usingContext)
                  ds2 == AddChat(ds1, PlaceholderMessage(message, options))
                  inv == [Closure("send", 0, message, options) EXCEPT !.own = Len(ds2)]
                  invId == Len(invs) + 1
              IN /\ Len(calls) < MaxCalls
                 /\ sends < MaxSends
                 /\ sends' = sends + 1
                 /\ controller' = controller + 1
                 /\ aborted' = FALSE
                 /\ dataSources' = ds2
                 /\ loading' = TRUE
                 /\ prompt' = <<>>
                 /\ invs' = Append(invs, inv)
                 /\ calls' = Append(calls,
                        NewCall(invId, inv, TRUE, 0, controller + 1, FALSE))
    /\ UNCHANGED <<usingContext, openLongReply, confirms, dialog, mounted>>

\* onRegenerate(index); the message component offers it on the replies of the
\* transcript
onRegenerate(index) ==
    /\ UIReady
    /\ index \in 1..Len(dataSources)
    /\ ~dataSources[index].inversion
    /\ ignored' = ""
    /\ IF loading
         THEN UNCHANGED <<dataSources, loading, controller, aborted, invs, calls>>
         ELSE LET requestOptions == dataSources[index].requestOptions
                  message == requestOptions.prompt
                  options == RegenerateOptions(requestOptions)
                  inv == Closure("regenerate", index, message, options)
                  invId == Len(invs) + 1
              IN /\ Len(calls) < MaxCalls
                 /\ controller' = controller + 1
                 /\ aborted' = FALSE
                 /\ loading' = TRUE
                 /\ dataSources' = UpdateChat(dataSources, index,
                                       RegenerateMessage(message, options))
                 /\ invs' = Append(invs, inv)
                 /\ calls' = Append(calls,
                        NewCall(invId, inv, TRUE, 0, controller + 1, FALSE))
    /\ UNCHANGED <<prompt, usingContext, openLongReply, sends, confirms, dialog, mounted>>

----------------------------------------------------------------------------
(* Network events *)

\* What a progress event can add to the buffer of a call.  The endpoint writes
\* the first object bare and every later one after a newline; the transport
\* may deliver a line in pieces, and the event fired at the end of the body
\* repeats the buffer as it is.
Writes(responseText) ==
    LET lines == ChunkSet \cup {Frag}
    IN { <<>> } \cup
       ( IF responseText = <<>> \/ responseText[Len(responseText)] = NL
           THEN { <<c>> : c \in lines }
           ELSE IF responseText[Len(responseText)] = Frag
                  THEN {}
                  ELSE { <<NL>> } \cup { <<NL, c>> : c \in lines } )

\* the closure after the long-reply branch of onDownloadProgress
Continued(inv, data) ==
    [inv EXCEPT !.options.parentMessageId = data.id,
                !.lastText = data.text,
                !.message = <<>>,
                !.acc = inv.acc \o Coalesce(data.text, <<>>)]

\* onDownloadProgress of call c, the buffer having grown by w
onDownloadProgress(c, w) ==
    /\ c \in InFlight
    /\ w \in Writes(calls[c].responseText)
    /\ Len(calls[c].responseText) + Len(w) <= MaxBuf
    /\ LET responseText == calls[c].responseText \o w
           data == ParseJSON(LastChunk(responseText))
           invId == calls[c].inv
           inv == invs[invId]
           received == [calls EXCEPT ![c].responseText = responseText]
       IN IF data = Null
            THEN /\ calls' = received
                 /\ UNCHANGED <<dataSources, invs>>
            ELSE /\ dataSources' = UpdateChat(dataSources, Target(inv, dataSources),
                        StreamMessage(inv.lastText, data, inv.message, inv.options))
                 /\ IF IsTruncated(data)
                      THEN /\ Len(calls) < MaxCalls
                           /\ invs' = [invs EXCEPT ![invId] = Continued(inv, data)]
                           /\ calls' = Append(received,
                                  NewCall(invId, Continued(inv, data), FALSE, c,
                                          controller, aborted))
                      ELSE /\ invs' = invs
                           /\ calls' = received
    /\ ignored' = ""
    /\ UNCHANGED <<prompt, loading, usingContext, openLongReply, controller,
                   aborted, sends, confirms, dialog, mounted>>

\* call c resolves: the code after the await in fetchChatAPIOnce, and for the
\* call the handler awaits, the finally block
Resolve(c) ==
    /\ c \in InFlight
    /\ calls' = [calls EXCEPT ![c] = Settle(calls[c], "done")]
    /\ invs' = Live(invs, calls')
    /\ dataSources' = UpdateChatSomeLoading(dataSources,
                          Target(invs[calls[c].inv], dataSources))
    /\ loading' = IF calls[c].root THEN FALSE ELSE loading
    /\ ignored' = ""
    /\ UNCHANGED <<prompt, usingContext, openLongReply, controller, aborted, sends, confirms,
                   dialog, mounted>>

\* the catch block of onConversation for an error that is no cancellation
CatchConversation(ds, inv, message) ==
    LET errorMessage == Coalesce(message, CommonWrong)
        index == Target(inv, ds)
        text == IF index \in 1..Len(ds) THEN ds[index].text ELSE Undefined
    IN IF index \in 1..Len(ds) /\ text # <<>>
         THEN UpdateChatSomeText(ds, index, ErrorLine(text, errorMessage))
         ELSE UpdateChat(ds, index,
                  ErrorMessage(errorMessage, inv.message, inv.options))

\* the catch block of onRegenerate for an error that is no cancellation
CatchRegenerate(ds, inv, message) ==
    UpdateChat(ds, inv.index,
        ErrorMessage(Coalesce(message, CommonWrong), inv.message, inv.options))

\* call c is rejected with an error whose message is e; the rejection of a
\* call issued by onDownloadProgress has no handler
Reject(c, e) ==
    /\ c \in InFlight
    /\ calls' = [calls EXCEPT ![c] = Settle(calls[c], "failed")]
    /\ invs' = Live(invs, calls')
    /\ LET inv == invs[calls[c].inv]
       IN IF calls[c].root
            THEN /\ dataSources' = IF inv.kind = "send"
                                     THEN CatchConversation(dataSources, inv, e)
                                     ELSE CatchRegenerate(dataSources, inv, e)
                 /\ loading' = FALSE
            ELSE UNCHANGED <<dataSources, loading>>
    /\ ignored' = ""
    /\ UNCHANGED <<prompt, usingContext, openLongReply, controller, aborted, sends, confirms,
                   dialog, mounted>>

----------------------------------------------------------------------------
(* Cancellation *)

\* the calls controller.abort() rejects with 'canceled'
AbortedBy(ctrl) == { c \in InFlight : calls[c].signal = ctrl }

\* the calls after controller.abort()
CallsAfterAbort(ctrl) ==
    [c \in 1..Len(calls) |->
        IF c \in AbortedBy(ctrl)
          THEN Settle(calls[c], "canceled")
          ELSE calls[c]]

\* mutant of CatchCancel: the cancellation is handled like any other error
CatchCancelAsError(ds, inv) ==
    IF inv.kind = "send" THEN CatchConversation(ds, inv, Canceled)
                         ELSE CatchRegenerate(ds, inv, Canceled)

\* the catch block of onConversation / onRegenerate for error.message === 'canceled'
CatchCancel(ds, inv) == UpdateChatSomeLoading(ds, Target(inv, ds))

\* the transcript after the catch blocks of the handlers whose awaited call
\* was cancelled; the rejection of a call issued by onDownloadProgress has no
\* handler
RECURSIVE CatchCanceled(_, _)
CatchCanceled(ds, cs) ==
    IF cs = {} THEN ds
    ELSE LET c == CHOOSE x \in cs : \A y \in cs : x <= y
         IN CatchCanceled(
                IF calls[c].root THEN CatchCancel(ds, invs[calls[c].inv]) ELSE ds,
                cs \ {c})

\* handleStop
handleStop ==
    /\ UIReady
    /\ ignored' = ""
    /\ IF loading
         THEN /\ aborted' = TRUE
              /\ calls' = CallsAfterAbort(controller)
              /\ invs' = Live(invs, calls')
              /\ dataSources' = CatchCanceled(dataSources, AbortedBy(controller))
              /\ loading' = FALSE
         ELSE UNCHANGED <<aborted, calls, invs, dataSources, loading>>
    /\ UNCHANGED <<prompt, usingContext, openLongReply, controller, sends, confirms,
                   dialog, mounted>>

\* onUnmounted; the finally block of the handler whose call was cancelled
\* clears the loading flag
Unmount ==
    /\ mounted
    /\ mounted' = FALSE
    /\ ignored' = ""
    /\ IF loading
         THEN /\ aborted' = TRUE
              /\ calls' = CallsAfterAbort(controller)
              /\ invs' = Live(invs, calls')
              /\ dataSources' = CatchCanceled(dataSources, AbortedBy(controller))
              /\ loading' = (\A c \in AbortedBy(controller) : ~calls[c].root)
         ELSE UNCHANGED <<aborted, calls, invs, dataSources, loading>>
    /\ UNCHANGED <<prompt, usingContext, openLongReply, controller, sends, confirms,
                   dialog>>

----------------------------------------------------------------------------
(* Dialogs *)

\* mutant of OpenDialog: the loading guard is missing
OpenDialogUnguarded(kind, index) ==
    /\ UIReady
    /\ confirms < MaxConfirms
    /\ ignored' = ""
    /\ dialog' = [kind |-> kind, index |-> index]
    /\ UNCHANGED <<dataSources, prompt, loading, usingContext, openLongReply,
                   controller, aborted, sends, confirms, invs, calls, mounted>>

\* handleDelete(index), handleClear, handleExport: dialog.warning(...)
OpenDialog(kind, index) ==
    /\ UIReady
    /\ confirms < MaxConfirms
    /\ ignored' = ""
    /\ dialog' = IF loading THEN dialog ELSE [kind |-> kind, index |-> index]
    /\ UNCHANGED <<dataSources, prompt, loading, usingContext, openLongReply,
                   controller, aborted, sends, confirms, invs, calls, mounted>>

handleDelete(index) ==
    /\ index \in 1..Len(dataSources)
    /\ OpenDialog("handleDelete", index)

handleClear == OpenDialog("handleClear", 0)

handleExport == OpenDialog("handleExport", 0)

\* the history field own of the closures after the entry at index is deleted
\* (index 0: after the transcript is cleared)
Moved(closures, index) ==
    [i \in 1..Len(closures) |->
        [closures[i] EXCEPT !.own =
            IF index = 0 \/ @ = index THEN 0 ELSE IF @ > index THEN @ - 1 ELSE @]]

\* the dialog of handleExport after its onPositiveClick has set d.loading = true
\* and is suspended at `await html2canvas(...)`: the dialog stays open
Exporting == [kind |-> "exporting", index |-> 0]

\* onPositiveClick of the open dialog; the handler of the export dialog runs
\* up to its await
PositiveClick ==
    /\ dialog # NoDialog
    /\ dialog # Exporting
    /\ dialog' = IF dialog.kind = "handleExport" THEN Exporting ELSE NoDialog
    /\ dataSources' =
          CASE dialog.kind = "handleDelete" -> DeleteChat(dataSources, dialog.index)
            [] dialog.kind = "handleClear" -> <<>>
            [] OTHER -> dataSources
    /\ invs' =
          CASE dialog.kind = "handleDelete" -> Moved(invs, dialog.index)
            [] dialog.kind = "handleClear" -> Moved(invs, 0)
            [] OTHER -> invs
    /\ confirms' = confirms + 1
    /\ ignored' = ""
    /\ UNCHANGED <<prompt, loading, usingContext, openLongReply, controller,
                   aborted, sends, calls, mounted>>

\* html2canvas settles: the rest of the export's onPositiveClick (the download
\* or ms.error, then d.loading = false) runs and the dialog closes
ExportDone ==
    /\ dialog = Exporting
    /\ dialog' = NoDialog
    /\ ignored' = ""
    /\ UNCHANGED <<dataSources, prompt, loading, usingContext, openLongReply,
                   controller, aborted, sends, confirms, invs, calls, mounted>>

\* the dialog is dismissed
NegativeClick ==
    /\ dialog # NoDialog
    /\ dialog' = NoDialog
    /\ ignored' = ""
    /\ UNCHANGED <<dataSources, prompt, loading, usingContext, openLongReply,
                   controller, aborted, sends, confirms, invs, calls, mounted>>

----------------------------------------------------------------------------
(* Specification *)

Next ==
    \/ \E p \in PromptSet : SetPrompt(p)
    \/ ToggleUsingContext
    \/ onConversation
    \/ \E index \in 1..Len(dataSources) : onRegenerate(index)
    \/ \E c \in InFlight : \E w \in Writes(calls[c].responseText) :
            onDownloadProgress(c, w)
    \/ \E c \in InFlight : Resolve(c)
    \/ \E c \in InFlight, e \in ErrorSet : Reject(c, e)
    \/ handleStop
    \/ Unmount
    \/ \E index \in 1..Len(dataSources) : handleDelete(index)
    \/ handleClear
    \/ handleExport
    \/ PositiveClick
    \/ ExportDone
    \/ NegativeClick

Spec == Init /\ [][Next]_vars

----------------------------------------------------------------------------
(* The view set up on a stored transcript *)

\* a reply as the store holds it: complete, or persisted while it was streaming
StoredReply(isLoading) ==
    [StreamMessage(<<>>, [kind |-> "obj", text |-> <<"b">>, id |-> 2,
                          conversationId |-> 9, finish |-> "stop"],
                   <<"h">>, EmptyOptions) EXCEPT !.loading = isLoading]

\* The transcripts the store holds when the view is set up: one or two
\* exchanges, each reply persisted with loading true or false.
StoredSet ==
    { << UserMessage(<<"h">>), StoredReply(l1) >> : l1 \in BOOLEAN } \cup
    { << UserMessage(<<"h">>), StoredReply(l1), UserMessage(<<"h">>), StoredReply(l2) >> :
        l1 \in BOOLEAN, l2 \in BOOLEAN }

\* dataSources.value.forEach((item, index) => {
\*   if (item.loading) updateChatSome(+uuid, index, { loading: false }) })
RECURSIVE ResetLoading(_, _)
ResetLoading(ds, index) ==
    IF index > Len(ds) THEN ds
    ELSE ResetLoading(IF ds[index].loading THEN UpdateChatSomeLoading(ds, index) ELSE ds,
                      index + 1)

\* the sends a transcript records: its user messages
Sent(ds) == Len(SelectSeq(ds, LAMBDA item : item.inversion))

InitStored ==
    /\ \E stored \in StoredSet :
          /\ dataSources = ResetLoading(stored, 1)
          /\ sends = Sent(stored)
    /\ prompt = <<>>
    /\ loading = FALSE
    /\ usingContext \in BOOLEAN
    /\ openLongReply \in BOOLEAN
    /\ controller = 0
    /\ aborted = FALSE
    /\ confirms = 0
    /\ invs = <<>>
    /\ calls = <<>>
    /\ dialog = NoDialog
    /\ mounted = TRUE
    /\ ignored = ""

\* the number of network calls issued in one behaviour that starts from a
\* stored transcript
StoredCalls == 2

Capped == Len(calls') <= StoredCalls

NextStored ==
    \/ \E p \in PromptSet : SetPrompt(p)
    \/ ToggleUsingContext
    \/ onConversation /\ Capped
    \/ \E index \in 1..Len(dataSources) : onRegenerate(index) /\ Capped
    \/ \E c \in InFlight : \E w \in Writes(calls[c].responseText) :
            onDownloadProgress(c, w) /\ Capped
    \/ \E c \in InFlight : Resolve(c)
    \/ \E c \in InFlight, e \in ErrorSet : Reject(c, e)
    \/ handleStop
    \/ Unmount
    \/ \E index \in 1..Len(dataSources) : handleDelete(index)
    \/ handleClear
    \/ handleExport
    \/ PositiveClick
    \/ ExportDone
    \/ NegativeClick

SpecStored == InitStored /\ [][NextStored]_vars

----------------------------------------------------------------------------
(* The view set up on a conversation whose replies carry different contexts *)

\* The replies of a stored conversation: one that streamed a chunk and so
\* carries the identifiers of that chunk, or one whose call failed and that
\* carries no conversationOptions.
ReplySet ==
    { [StreamMessage(<<>>, data, <<"h">>, EmptyOptions) EXCEPT !.loading = FALSE] :
        data \in ChunkSet }
    \cup { ErrorMessage(<<"E">>, <<"h">>, EmptyOptions) }

\* the number of exchanges of a stored conversation
MaxExchanges == 3

\* the transcripts of n exchanges
RECURSIVE Conversations(_)
Conversations(n) ==
    IF n = 0 THEN { <<>> }
    ELSE { ds \o << UserMessage(<<"h">>), r >> : ds \in Conversations(n - 1), r \in ReplySet }

\* The transcripts the store holds when the view is set up: up to MaxExchanges
\* exchanges, each reply with the context of either chunk or with none.
ContextSet == UNION { Conversations(n) : n \in 0..MaxExchanges }

\* the sends of the stored conversation are not counted in `sends`: what
\* bounds a behaviour of this specification is ContextCalls
InitContext ==
    /\ \E stored \in ContextSet : dataSources = ResetLoading(stored, 1)
    /\ sends = 0
    /\ prompt = <<>>
    /\ loading = FALSE
    /\ usingContext \in BOOLEAN
    /\ openLongReply \in BOOLEAN
    /\ controller = 0
    /\ aborted = FALSE
    /\ confirms = 0
    /\ invs = <<>>
    /\ calls = <<>>
    /\ dialog = NoDialog
    /\ mounted = TRUE
    /\ ignored = ""

\* the number of network calls issued in one behaviour that starts from a
\* stored conversation
ContextCalls == 1

CappedContext == Len(calls') <= ContextCalls

NextContext ==
    \/ \E p \in PromptSet : SetPrompt(p)
    \/ ToggleUsingContext
    \/ onConversation /\ CappedContext
    \/ \E index \in 1..Len(dataSources) : onRegenerate(index) /\ CappedContext
    \/ \E c \in InFlight : \E w \in Writes(calls[c].responseText) :
            onDownloadProgress(c, w) /\ CappedContext
    \/ \E c \in InFlight : Resolve(c)
    \/ \E c \in InFlight, e \in ErrorSet : Reject(c, e)
    \/ handleStop
    \/ Unmount
    \/ \E index \in 1..Len(dataSources) : handleDelete(index)
    \/ handleClear
    \/ handleExport
    \/ PositiveClick
    \/ ExportDone
    \/ NegativeClick

SpecContext == InitContext /\ [][NextContext]_vars

----------------------------------------------------------------------------
(* Every network call eventually completes, fails or is cancelled *)

\* call c settles: it completes or fails
Settles(c) == Resolve(c) \/ \E e \in ErrorSet : Reject(c, e)

FairSpec == Spec /\ \A c \in 1..MaxCalls : WF_vars(Settles(c))

----------------------------------------------------------------------------
(* Notions the claims are stated in *)

\* text contains part
Contains(text, part) ==
    \E i \in 0..(Len(text) - Len(part)) : SubSeq(text, i + 1, i + Len(part)) = part

\* the prompt is empty or consists of white space only
OnlyWhiteSpace(p) == \A i \in 1..Len(p) : p[i] = " "

\* the buffer without the newlines that end it
RECURSIVE WithoutTrailingNL(_)
WithoutTrailingNL(buf) ==
    IF buf # <<>> /\ buf[Len(buf)] = NL
      THEN WithoutTrailingNL(SubSeq(buf, 1, Len(buf) - 1)) ELSE buf

\* the last newline-delimited line of a buffer
RECURSIVE AfterLastNL(_)
AfterLastNL(buf) ==
    IF buf = <<>> \/ buf[Len(buf)] = NL THEN <<>>
    ELSE Append(AfterLastNL(SubSeq(buf, 1, Len(buf) - 1)), buf[Len(buf)])

LastLine(buf) == AfterLastNL(WithoutTrailingNL(buf))

\* the line is the text of one JSON object
IsObjectLine(line) == Len(line) = 1 /\ line[1] \in ChunkSet

\* the calls that call c issued from its progress events
FollowUps(cs, c) == { d \in 1..Len(cs) : cs[d].parent = c }

\* the calls of invocation i
CallsOf(cs, i) == { c \in 1..Len(cs) : cs[c].inv = i }

\* the step is a progress event of call c: the call stays in flight, the
\* handler reads the buffer, which has grown by what the event delivers, and
\* nothing but the transcript and the calls changes
ProgressStep(c) ==
    /\ UNCHANGED <<prompt, loading, usingContext, openLongReply, controller,
                   aborted, sends, confirms, dialog, mounted>>
    /\ ignored' = ""
    /\ Len(calls') >= Len(calls)
    /\ \A d \in 1..Len(calls) : d # c => calls'[d] = calls[d]
    /\ calls'[c].status = "inflight"
    /\ Len(calls'[c].responseText) >= Len(calls[c].responseText)
    /\ onDownloadProgress(c, SubSeq(calls'[c].responseText,
                                    Len(calls[c].responseText) + 1,
                                    Len(calls'[c].responseText)))

----------------------------------------------------------------------------
(* C1 *)

\* C1: when handleStop is taken while a send or regenerate is outstanding,
\* every network call of the view that is in flight is aborted and the
\* pending reply of that send ends with loading = false.
C1_StopAbortsEveryCall ==
    [][ (handleStop /\ loading) =>
          /\ InFlight' = {}
          /\ \A c \in InFlight :
                calls[c].root /\ calls[c].signal = controller =>
                  LET t == Target(invs[calls[c].inv], dataSources)
                  IN t \in 1..Len(dataSources') /\ ~dataSources'[t].loading ]_vars

----------------------------------------------------------------------------
(* C2 *)

\* C2: a cancellation is a silent stop: when the call a send or regenerate
\* awaits is cancelled, by handleStop or by the unmounting, the transcript
\* changes in the loading flag of the target message only, which becomes
\* false; its text and its error flag stay as they were.
C2_CancelIsSilent ==
    [][ ((handleStop \/ Unmount) /\ loading) =>
          \A c \in InFlight :
             calls[c].root /\ calls[c].signal = controller =>
               LET t == Target(invs[calls[c].inv], dataSources)
               IN /\ t \in 1..Len(dataSources)
                  /\ Len(dataSources') = Len(dataSources)
                  /\ dataSources'[t].text = dataSources[t].text
                  /\ dataSources'[t].error = dataSources[t].error
                  /\ dataSources'[t].loading = FALSE
                  /\ \A i \in 1..Len(dataSources) :
                        i # t => dataSources'[i] = dataSources[i]
                  /\ dataSources' = [dataSources EXCEPT ![t].loading = FALSE] ]_vars

\* a send was stopped after the text "a" had been merged into its reply: the
\* reply keeps the text, is no error entry and is not loading
C2_Witness ==
    /\ Len(calls) = 1
    /\ calls[1].status = "canceled"
    /\ Len(dataSources) = 2
    /\ dataSources[2].text = <<"a">>
    /\ ~dataSources[2].error
    /\ ~dataSources[2].loading
    /\ ~loading

----------------------------------------------------------------------------
(* C3 *)

\* C3: whenever a network call issued by a send or regenerate, a long-reply
\* continuation included, fails with an error that is no cancellation, the
\* target message ends with loading = false and a text that contains the
\* error message.
C3_FailureIsShown ==
    [][ \A c \in InFlight : \A e \in ErrorSet :
          Reject(c, e) =>
            LET t == Target(invs[calls[c].inv], dataSources)
            IN t \in 1..Len(dataSources) =>
                 /\ ~dataSources'[t].loading
                 /\ Contains(dataSources'[t].text, Coalesce(e, CommonWrong)) ]_vars

----------------------------------------------------------------------------
(* C4 *)

\* C4: submitting when the prompt is empty or white space only is a no-op: the
\* transcript, the loading flag, the prompt and the cancellation handle are
\* unchanged and no network call is issued.
C4_BlankSubmitIsNoOp ==
    [][ (onConversation /\ OnlyWhiteSpace(prompt)) =>
          UNCHANGED <<dataSources, loading, prompt, controller, aborted, invs,
                      calls>> ]_vars

\* a submit was ignored with a prompt of white space, nothing being outstanding
C4_Witness ==
    /\ ignored = "onConversation"
    /\ ~loading
    /\ prompt = <<" ">>
    /\ dataSources # <<>>

----------------------------------------------------------------------------
(* C5 *)

\* C5: in every reachable state at most one network call of the view is in
\* flight.
C5_AtMostOneCallInFlight == Cardinality(InFlight) <= 1

----------------------------------------------------------------------------
(* C6 *)

\* C6: last chunk wins.  On each progress event, if the last line of the
\* buffer received so far is a JSON object, the text of the target message
\* becomes the accumulator followed by the text of that object and its
\* conversationOptions the conversationId and id of that object, whatever the
\* earlier lines are; if the last line is no JSON object the event leaves the
\* transcript unchanged.
C6_LastChunkWins ==
    [][ \A c \in InFlight :
          ProgressStep(c) =>
            LET line == LastLine(calls'[c].responseText)
                inv == invs[calls[c].inv]
                t == Target(inv, dataSources)
            IN IF IsObjectLine(line)
                 THEN t \in 1..Len(dataSources) =>
                        /\ dataSources'[t].text = inv.lastText \o line[1].text
                        /\ dataSources'[t].conversationOptions =
                              [conversationId |-> line[1].conversationId,
                               parentMessageId |-> line[1].id]
                 ELSE dataSources' = dataSources ]_vars

\* a buffer of two lines has been read and the reply shows the text of the
\* second line, with its identifiers
C6_Witness ==
    \E c \in InFlight :
       /\ Len(calls[c].responseText) = 3
       /\ calls[c].responseText[1].text = <<"a">>
       /\ calls[c].responseText[3].text = <<"b">>
       /\ LET t == Target(invs[calls[c].inv], dataSources)
          IN /\ t \in 1..Len(dataSources)
             /\ dataSources[t].text = <<"b">>
             /\ dataSources[t].conversationOptions.parentMessageId = 2

----------------------------------------------------------------------------
(* C7 *)

\* the calls of invocation i form one chain that ends in call c: no call of
\* the invocation is followed up twice and c is not followed up
IsChainEnd(c) ==
    /\ FollowUps(calls, c) = {}
    /\ \A d \in CallsOf(calls, calls[c].inv) : Cardinality(FollowUps(calls, d)) <= 1

\* C7: with long reply enabled the text accumulates across continuations:
\* when a chunk of segment k+1 (k >= 1) is merged, the text shown for the
\* reply is the final texts of segments 1..k, in order, followed by the text
\* of that chunk.
C7_TextAccumulates ==
    [][ \A c \in InFlight :
          (ProgressStep(c) /\ openLongReply /\ calls[c].parent # 0 /\ IsChainEnd(c)) =>
            LET line == LastLine(calls'[c].responseText)
                inv == invs[calls[c].inv]
                t == Target(inv, dataSources)
            IN (IsObjectLine(line) /\ t \in 1..Len(dataSources)) =>
                  dataSources'[t].text = inv.acc \o line[1].text ]_vars

----------------------------------------------------------------------------
(* C8 *)

\* C8: with long reply enabled, a response whose final chunk carries the
\* truncation marker causes exactly one follow-up request, issued with
\* parentMessageId equal to the id of that chunk and with an empty prompt; a
\* chunk without the marker causes no follow-up request.
C8_OneFollowUp ==
    [][ \A c \in InFlight :
          (ProgressStep(c) /\ openLongReply) =>
            LET line == LastLine(calls'[c].responseText)
                new == Len(calls')
            IN IF IsObjectLine(line) /\ line[1].finish = "length"
                 THEN /\ FollowUps(calls', c) = {new}
                      /\ new = Len(calls) + 1
                      /\ calls'[new].options.parentMessageId = line[1].id
                      /\ calls'[new].prompt = <<>>
                 ELSE Len(calls') = Len(calls) ]_vars

----------------------------------------------------------------------------
(* C9 *)

\* C9: no retries.  A step in which a call fails or is cancelled issues no
\* call, a call is issued by an accepted send or regenerate or for a call
\* that is in flight, and with long reply disabled every invocation has
\* issued exactly one call.
C9_NoRetry ==
    /\ [][ (\E c \in InFlight : calls'[c].status \in {"failed", "canceled"})
              => Len(calls') = Len(calls) ]_vars
    /\ [][ Len(calls') > Len(calls) =>
              /\ Len(calls') = Len(calls) + 1
              /\ LET new == calls'[Len(calls')]
                 IN \/ new.root /\ Len(invs') = Len(invs) + 1
                    \/ new.parent \in InFlight /\ new.parent \in InFlight' ]_vars
    /\ [](~openLongReply =>
             \A i \in 1..Len(invs) : Cardinality(CallsOf(calls, i)) = 1)

\* long reply is disabled, the call of the first invocation failed, the call
\* of the second was cancelled, and each of the two issued one call
C9_Witness ==
    /\ ~openLongReply
    /\ Len(invs) = 2
    /\ Len(calls) = 2
    /\ calls[1].status = "failed"
    /\ calls[2].status = "canceled"

----------------------------------------------------------------------------
(* C10 *)

\* C10: in every reachable state, if a network call of the view is in flight
\* then the view-level loading flag is true.
C10_InFlightImpliesLoading == InFlight # {} => loading

----------------------------------------------------------------------------
(* C11 *)

\* the call a handler awaits leaves flight in this step
RootSettles(c) == c \in InFlight /\ calls[c].root /\ c \notin InFlight'

\* the step is an accepted regenerate of the reply at index k
RegenerateAccepted(k) ==
    /\ Len(invs') = Len(invs) + 1
    /\ invs'[Len(invs')].kind = "regenerate"
    /\ invs'[Len(invs')].index = k

\* C11: every accepted send or regenerate eventually settles: its awaited
\* call being in flight leads to a state where that call has settled and the
\* view-level loading flag is false; in the step that settles it the target
\* reply ends with loading = false; and a reply that is not loading stays so
\* until an accepted regenerate targets it.
C11_EventuallySettles ==
    /\ \A c \in 1..MaxCalls :
          (c \in InFlight /\ calls[c].root) ~> (c \notin InFlight /\ ~loading)
    /\ [][ \A c \in InFlight :
             RootSettles(c) =>
               LET t == Target(invs[calls[c].inv], dataSources)
               IN /\ ~loading'
                  /\ t \in 1..Len(dataSources') => ~dataSources'[t].loading ]_vars
    /\ [][ Len(dataSources') >= Len(dataSources) =>
             \A k \in 1..Len(dataSources) :
                (~dataSources[k].loading /\ dataSources'[k].loading)
                   => RegenerateAccepted(k) ]_vars

----------------------------------------------------------------------------
(* C12 *)

\* the step is a callback of call c or of the handler that awaits it: a
\* progress event, the completion or failure of the call, or its cancellation
\* by handleStop or the unmounting
OnBehalfOf(c) ==
    \/ ProgressStep(c)
    \/ Settles(c)
    \/ (handleStop \/ Unmount) /\ calls[c].root /\ c \notin InFlight'

\* C12: a transcript update made on behalf of a send changes no entry but the
\* placeholder reply that this send appended, and that entry stays a reply.
C12_OnlyOwnPlaceholder ==
    [][ \A c \in InFlight :
          (invs[calls[c].inv].kind = "send" /\ OnBehalfOf(c)) =>
            LET own == invs[calls[c].inv].own
            IN /\ Len(dataSources') = Len(dataSources)
               /\ \A k \in 1..Len(dataSources) :
                     k # own => dataSources'[k] = dataSources[k]
               /\ own \in 1..Len(dataSources) => ~dataSources'[own].inversion ]_vars

----------------------------------------------------------------------------
(* C13 *)

\* C13: while the view-level loading flag is true, submit, regenerate,
\* delete, clear and export are no-ops: the transcript, the loading flag, the
\* prompt and the cancellation handle are unchanged, no network call is issued
\* and no dialog is opened.
C13_NoOpWhileLoading ==
    [][ ( /\ loading
          /\ \/ onConversation
             \/ \E index \in 1..Len(dataSources) : onRegenerate(index)
             \/ \E index \in 1..Len(dataSources) : handleDelete(index)
             \/ handleClear
             \/ handleExport )
        => UNCHANGED <<dataSources, loading, prompt, controller, aborted, invs,
                       calls, dialog>> ]_vars

\* a submit of a non-blank prompt was ignored while a reply was streaming
C13_Witness ==
    /\ ignored = "onConversation"
    /\ loading
    /\ ~IsBlank(prompt)
    /\ InFlight # {}
    /\ dialog = NoDialog

----------------------------------------------------------------------------
(* C14 *)

\* the step is a submit that is accepted: the prompt is not blank and the
\* view is not loading
SendAccepted == onConversation /\ ~loading /\ ~OnlyWhiteSpace(prompt)

\* C14: an accepted send appends exactly two entries to the end of the
\* transcript: the user message (inversion, text = the prompt, not loading)
\* and then the placeholder reply (no inversion, loading, no error); the
\* earlier entries are unchanged, the prompt is cleared and the loading flag
\* becomes true.
C14_SendAppendsTwo ==
    [][ SendAccepted =>
          LET n == Len(dataSources)
          IN /\ Len(dataSources') = n + 2
             /\ SubSeq(dataSources', 1, n) = dataSources
             /\ dataSources'[n + 1].inversion
             /\ dataSources'[n + 1].text = prompt
             /\ ~dataSources'[n + 1].loading
             /\ ~dataSources'[n + 2].inversion
             /\ dataSources'[n + 2].loading
             /\ ~dataSources'[n + 2].error
             /\ prompt' = <<>>
             /\ loading' ]_vars

\* the send of " h" was accepted on an empty transcript and nothing has been
\* received yet
C14_Witness ==
    /\ Len(dataSources) = 2
    /\ dataSources[1].inversion /\ dataSources[1].text = <<" ", "h">>
    /\ ~dataSources[2].inversion /\ dataSources[2].loading
    /\ dataSources[2].text = Thinking
    /\ prompt = <<>>
    /\ loading
    /\ Len(calls) = 1 /\ calls[1].responseText = <<>> /\ calls[1].status = "inflight"

----------------------------------------------------------------------------
(* C15 *)

\* the positions of the replies that carry conversationOptions
WithContext(ds) ==
    { k \in 1..Len(ds) : ~ds[k].inversion /\ ds[k].conversationOptions # Null }

\* C15: the options sent with a new send are the conversationOptions of the
\* most recent reply that has conversationOptions when context use is on and
\* there is such a reply, and the empty options otherwise (checked on stored
\* conversations of up to MaxExchanges replies, with and without context).
C15_OptionsAreLastContext ==
    [][ SendAccepted =>
          LET with == WithContext(dataSources)
              last == CHOOSE k \in with : \A j \in with : j <= k
              sent == calls'[Len(calls')]
          IN /\ Len(calls') = Len(calls) + 1
             /\ sent.options = IF usingContext /\ with # {}
                                 THEN dataSources[last].conversationOptions
                                 ELSE EmptyOptions ]_vars

\* A send was accepted on a conversation of three replies with context use
\* on: the first reply carries the identifiers of one chunk, the second those
\* of another and the third none; the call carries those of the second.
C15_Witness ==
    /\ usingContext
    /\ Len(dataSources) = 8
    /\ dataSources[2].conversationOptions = [conversationId |-> 9, parentMessageId |-> 1]
    /\ dataSources[4].conversationOptions = [conversationId |-> 9, parentMessageId |-> 2]
    /\ dataSources[6].conversationOptions = Null
    /\ dataSources[8].loading
    /\ Len(calls) = 1
    /\ calls[1].status = "inflight"
    /\ invs[1].kind = "send"
    /\ calls[1].options = [conversationId |-> 9, parentMessageId |-> 2]

----------------------------------------------------------------------------
(* C16 *)

\* C16: when the call of a send fails with an error that is no cancellation
\* before any chunk was merged into the reply (the target is still the
\* placeholder as the send appended it), the placeholder becomes an error
\* entry: error = true, text = the error message, loading = false and
\* conversationOptions = null.
C16_ErrorEntry ==
    [][ \A c \in InFlight : \A e \in ErrorSet :
          LET inv == invs[calls[c].inv]
              t == Target(inv, dataSources)
          IN ( /\ Reject(c, e)
               /\ calls[c].root
               /\ inv.kind = "send"
               /\ t \in 1..Len(dataSources)
               /\ dataSources[t] = PlaceholderMessage(inv.message, inv.options) )
             => /\ dataSources'[t].error
                /\ dataSources'[t].text = Coalesce(e, CommonWrong)
                /\ ~dataSources'[t].loading
                /\ dataSources'[t].conversationOptions = Null ]_vars

----------------------------------------------------------------------------
(* C17 *)

\* nothing is outstanding and no entry was deleted: the transcript is the
\* exchanges of the sends accepted so far, a user message and its reply each
Exchanges ==
    /\ ~loading
    /\ InFlight = {}
    /\ Len(dataSources) = 2 * sends

\* C17: an accepted regenerate of the reply at an index re-sends the prompt
\* and the options stored with that reply and changes that entry only; and
\* once every send and regenerate has settled, the prompt stored with a reply
\* is the prompt the user submitted for it.
C17_RegenerateResends ==
    /\ [][ \A index \in 1..Len(dataSources) :
             (onRegenerate(index) /\ ~loading) =>
               LET requestOptions == dataSources[index].requestOptions
                   sent == calls'[Len(calls')]
               IN /\ Len(calls') = Len(calls) + 1
                  /\ sent.prompt = requestOptions.prompt
                  /\ sent.options = IF requestOptions.options # Null
                                       THEN requestOptions.options ELSE EmptyOptions
                  /\ Len(dataSources') = Len(dataSources)
                  /\ \A k \in 1..Len(dataSources) :
                        k # index => dataSources'[k] = dataSources[k] ]_vars
    /\ [](Exchanges =>
            \A j \in 1..sends :
               dataSources[2 * j].requestOptions.prompt = dataSources[2 * j - 1].text)

----------------------------------------------------------------------------
(* C18 *)

\* a send or regenerate started for the reply at position k is outstanding:
\* one of its calls is in flight
Outstanding(k) == \E c \in InFlight : invs[calls[c].inv].own = k

\* C18: after the view is set up on a stored transcript no message has
\* loading = true and the transcript is the stored one with nothing but the
\* loading flags changed; from then on a message has loading = true only
\* while a send or regenerate that targets it is outstanding.
C18_LoadingOnlyWhileOutstanding ==
    /\ \E stored \in StoredSet :
          dataSources = [k \in 1..Len(stored) |-> [stored[k] EXCEPT !.loading = FALSE]]
    /\ [](\A k \in 1..Len(dataSources) : dataSources[k].loading => Outstanding(k))

----------------------------------------------------------------------------
(* C19 *)

\* C19: after the view is unmounted no network call issued by it is in
\* flight; the unmounting changes nothing in the transcript but the loading
\* flag of a reply, which becomes false; and no other transcript update is
\* made afterwards (the user confirming a dialog that was left open is no
\* update of the view's).
C19_UnmountAbortsAll ==
    /\ [](~mounted => InFlight = {})
    /\ [][ (Unmount \/ (~mounted /\ ~PositiveClick)) =>
             /\ Len(dataSources') = Len(dataSources)
             /\ \A k \in 1..Len(dataSources) :
                   \/ dataSources'[k] = dataSources[k]
                   \/ dataSources'[k] = [dataSources[k] EXCEPT !.loading = FALSE] ]_vars

====
